---- MODULE Spec2Model ----
(***************************************************************************)
(* A model of the .eml -> .html converters (eml_to_html_include_inline_    *)
(* image.py, eml_to_html_only_text.py).  Texts are TLA+ strings; every     *)
(* regular expression of the source is an operator that scans the string   *)
(* the way re.sub / re.search do (leftmost match, greedy or lazy           *)
(* quantifiers as written, non-overlapping replacement).                   *)
(***************************************************************************)
EXTENDS Integers, Sequences, FiniteSets, TLC

VARIABLES
    msg,                  \* the parsed message: its parts in walk order
    variant,              \* "inline" (eml_to_html_include_inline_image.py)
                          \* or "text" (eml_to_html_only_text.py)
    preserve_dimensions,  \* the argument of eml_to_html
    pc,                   \* the position of eml_to_html
    idx,                  \* the position of the running msg.walk() loop
    images,               \* the ImageIndex
    html_body,            \* locals of extract_email_content
    plain_body,
    body,
    attachments,          \* the list built by extract_attachments_info
    ret,                  \* what eml_to_html returned
    call,                 \* a function applied on its own (see the harness)
    eml_file_path,        \* the argument of eml_to_html: the file converted
    rendered,             \* the header values eml_to_html extracted
    outputs               \* the files of output_dir: file name -> content

vars == <<msg, variant, preserve_dimensions, pc, idx, images, html_body,
          plain_body, body, attachments, ret, call, eml_file_path, rendered,
          outputs>>

\* what the steps of eml_to_html after the header extraction and before
\* the write leave alone
FileVars == <<eml_file_path, rendered, outputs>>

(***************************************************************************)
(* Bounds of the model.                                                    *)
(***************************************************************************)
\* number of fragments an input text of a function under test is built from
MaxFrags == 3

\* number of attributes of the tag an input html is built around
MaxAttrs == 2

\* number of parts below the root of a multipart message
MaxParts == 2

\* number of pieces an input html of replace_cid_references is built from
MaxRefs == 2

(***************************************************************************)
(* Strings and the character classes of Python's re module.                *)
(***************************************************************************)
Char(s, i) == SubSeq(s, i, i)

\* \s
Whitespace == {" ", "\t", "\n", "\r", "\f"}

\* \d
Digit == {"0", "1", "2", "3", "4", "5", "6", "7", "8", "9"}

UpperCase == "ABCDEFGHIJKLMNOPQRSTUVWXYZ"

LowerCase == "abcdefghijklmnopqrstuvwxyz"

\* str.lower() of the upper-case letters
LowerMap ==
    [c \in {Char(UpperCase, k) : k \in 1..26} |->
        Char(LowerCase, CHOOSE k \in 1..26 : Char(UpperCase, k) = c)]

\* str.lower() of one character; what re.IGNORECASE compares
LowerChar(c) == IF c \in DOMAIN LowerMap THEN LowerMap[c] ELSE c

RECURSIVE Lower(_)
Lower(s) == IF s = "" THEN "" ELSE LowerChar(Head(s)) \o Lower(Tail(s))

\* the literal p occurs in s at position i
StartsWithAt(s, i, p) ==
    /\ i >= 1
    /\ i + Len(p) - 1 <= Len(s)
    /\ SubSeq(s, i, i + Len(p) - 1) = p

\* the same under re.IGNORECASE; p is written in lower case
IStartsWithAt(s, i, p) ==
    /\ i >= 1
    /\ i + Len(p) - 1 <= Len(s)
    /\ LowerChar(Char(s, i)) = Char(p, 1)
    /\ Lower(SubSeq(s, i, i + Len(p) - 1)) = p

\* Python's  p in s
Contains(s, p) == \E i \in 1..(Len(s) + 1) : StartsWithAt(s, i, p)

\* the smallest position of the set S, 0 when S is empty: where a scan over
\* the candidate positions S stops
First(S) == IF S = {} THEN 0 ELSE CHOOSE k \in S : \A j \in S : k <= j

\* first index >= i of s that holds no character of the class cls, Len(s) + 1
\* when there is none (a greedy cls* from i on)
SkipIn(s, i, cls) ==
    LET k == First({j \in i..Len(s) : Char(s, j) \notin cls})
    IN  IF k = 0 THEN IF i > Len(s) THEN i ELSE Len(s) + 1 ELSE k

\* first index >= i of s that holds a character of the class cls, Len(s) + 1
\* when there is none (a greedy [^cls]* from i on)
SkipNotIn(s, i, cls) ==
    LET k == First({j \in i..Len(s) : Char(s, j) \in cls})
    IN  IF k = 0 THEN IF i > Len(s) THEN i ELSE Len(s) + 1 ELSE k

\* first index >= i of s that holds no whitespace (\s* , greedy)
SkipWs(s, i) == SkipIn(s, i, Whitespace)

\* str.strip()
RECURSIVE lstrip(_)
lstrip(s) == IF s # "" /\ Head(s) \in Whitespace THEN lstrip(Tail(s)) ELSE s

RECURSIVE rstrip(_)
rstrip(s) ==
    IF s # "" /\ Char(s, Len(s)) \in Whitespace
    THEN rstrip(SubSeq(s, 1, Len(s) - 1))
    ELSE s

strip(s) == rstrip(lstrip(s))

RECURSIVE Concat(_)
Concat(ss) == IF ss = <<>> THEN "" ELSE Head(ss) \o Concat(Tail(ss))

\* all sequences over S of length 0..n
SeqsUpTo(S, n) == UNION {[1..k -> S] : k \in 0..n}

(***************************************************************************)
(* Redaction Engine: anonymize_content                                     *)
(***************************************************************************)
\* The rule list is imported from a module (patterns.py) that is not part
\* of the sources; the rules here follow the specification: an ordered list
\* of (pattern, replacement), here literal address patterns replaced by
\* nothing, matched case-insensitively.
patterns ==
    << [pattern |-> "x@y.z", replacement |-> ""],
       [pattern |-> "q@y.z", replacement |-> ""] >>

\* re.sub(pattern, replacement, text, flags=re.IGNORECASE) for a literal:
\* the text from i on, every match replaced
RECURSIVE sub_rule_from(_, _, _)
sub_rule_from(s, i, rule) ==
    LET j == First({k \in i..Len(s) : IStartsWithAt(s, k, rule.pattern)})
    IN  IF j = 0 THEN SubSeq(s, i, Len(s))
        ELSE SubSeq(s, i, j - 1) \o rule.replacement
                 \o sub_rule_from(s, j + Len(rule.pattern), rule)

\* for pattern, replacement in patterns: text = re.sub(...)
RECURSIVE apply_patterns(_, _)
apply_patterns(text, k) ==
    IF k > Len(patterns) THEN text
    ELSE apply_patterns(sub_rule_from(text, 1, patterns[k]), k + 1)

\* re.sub(r'\s+', ' ', text)
RECURSIVE sub_spaces_from(_, _)
sub_spaces_from(s, i) ==
    LET j == First({k \in i..Len(s) : Char(s, k) \in Whitespace})
    IN  IF j = 0 THEN SubSeq(s, i, Len(s))
        ELSE SubSeq(s, i, j - 1) \o " " \o sub_spaces_from(s, SkipWs(s, j))

\* <\s*> tried at i: the index after the match, 0 when it does not match
EmptyPairEnd(s, i, open, close) ==
    IF /\ Char(s, i) = open
       /\ SkipWs(s, i + 1) <= Len(s)
       /\ Char(s, SkipWs(s, i + 1)) = close
    THEN SkipWs(s, i + 1) + 1
    ELSE 0

\* re.sub(r'<\s*>', '', text) and re.sub(r'\(\s*\)', '', text)
RECURSIVE sub_empty_pair_from(_, _, _, _)
sub_empty_pair_from(s, i, open, close) ==
    LET j == First({k \in i..Len(s) : EmptyPairEnd(s, k, open, close) # 0})
    IN  IF j = 0 THEN SubSeq(s, i, Len(s))
        ELSE SubSeq(s, i, j - 1)
                 \o sub_empty_pair_from(s, EmptyPairEnd(s, j, open, close),
                                        open, close)

anonymize_content(text) ==
    IF text = "" THEN text
    ELSE LET t1 == apply_patterns(text, 1)
             t2 == sub_spaces_from(t1, 1)
             t3 == sub_empty_pair_from(t2, 1, "<", ">")
             t4 == sub_empty_pair_from(t3, 1, "(", ")")
         IN  strip(t4)

\* some rule of the list matches somewhere in text
HasRuleMatch(text) ==
    \E k \in 1..Len(patterns) :
        \E i \in 1..Len(text) : IStartsWithAt(text, i, patterns[k].pattern)

(***************************************************************************)
(* Dimension Normalizer: clean_image_dimensions                            *)
(***************************************************************************)
Quote == {"\"", "'"}

\* index of the first ">" of s at or after i, 0 when there is none
FindGt(s, i) == First({k \in i..Len(s) : Char(s, k) = ">"})

\* index of the first quote of s at or after i, 0 when there is none
FindQuote(s, i) == First({k \in i..Len(s) : Char(s, k) \in Quote})

\* (\s+width=["\']?\d+[%px]*["\']?) tried at position p, under IGNORECASE:
\* the index after the greedy match, 0 when it does not match at p
AttrEnd(s, p, name) ==
    IF p > Len(s) \/ Char(s, p) \notin Whitespace THEN 0
    ELSE LET a == SkipWs(s, p)
             b == a + Len(name) + 1
             c == IF b <= Len(s) /\ Char(s, b) \in Quote THEN b + 1 ELSE b
             d == SkipIn(s, c, Digit)
             e == SkipIn(s, d, {"%", "p", "x", "P", "X"})
             f == IF e <= Len(s) /\ Char(s, e) \in Quote THEN e + 1 ELSE e
         IN  IF IStartsWithAt(s, a, name \o "=") /\ d > c THEN f ELSE 0

\* the lazy ([^>]*?) in front of the attribute: the smallest p in [p, e)
\* at which the attribute matches, 0 when there is none
FirstAttr(s, p, e, name) ==
    First({k \in p..(e - 1) : AttrEnd(s, k, name) # 0})

\* the pattern of a dimension attribute tried at i: the index of the
\* closing ">" of the match, 0 when it does not match at i
ImgAttrEnd(s, i, name) ==
    IF /\ IStartsWithAt(s, i, "<img")
       /\ FindGt(s, i + 4) # 0
       /\ FirstAttr(s, i + 4, FindGt(s, i + 4), name) # 0
    THEN FindGt(s, i + 4)
    ELSE 0

\* re.sub(r'<img([^>]*?)(\s+width=["\']?\d+[%px]*["\']?)([^>]*?)>',
\*        r'<img\1\3>', html_content, flags=re.IGNORECASE), name = width
\* or height: one match per tag, matches do not overlap
RECURSIVE sub_img_attr_from(_, _, _)
sub_img_attr_from(s, i, name) ==
    LET j == First({k \in i..Len(s) : ImgAttrEnd(s, k, name) # 0})
        e == ImgAttrEnd(s, j, name)
        p == FirstAttr(s, j + 4, e, name)
    IN  IF j = 0 THEN SubSeq(s, i, Len(s))
        ELSE SubSeq(s, i, j - 1)
                 \o "<img" \o SubSeq(s, j + 4, p - 1)
                 \o SubSeq(s, AttrEnd(s, p, name), e - 1) \o ">"
                 \o sub_img_attr_from(s, e + 1, name)

\* style=["\']([^"\']*)["\'] matches at j under IGNORECASE
StyleMatches(tag, j) ==
    /\ IStartsWithAt(tag, j, "style=")
    /\ j + 6 <= Len(tag)
    /\ Char(tag, j + 6) \in Quote
    /\ FindQuote(tag, j + 7) # 0

\* re.search(r'style=["\']([^"\']*)["\']', img_tag, re.IGNORECASE) tried at
\* j and after: the position of the leftmost match, 0 when there is none
StyleSearch(tag, j) ==
    First({k \in j..Len(tag) : StyleMatches(tag, k)})

\* index of the first ";" of s at or after i, Len(s) + 1 when there is none
FindSemi(s, i) == SkipNotIn(s, i, {";"})

\* width\s*:\s*[^;]+;?  tried at i under IGNORECASE: the index after the
\* match, 0 when it does not match at i.  [^;]+ needs one character that is
\* not ";" after the colon (a blank given back by \s* will do).
DeclEnd(s, i, name) ==
    LET a == SkipWs(s, i + Len(name))
    IN  IF /\ IStartsWithAt(s, i, name)
           /\ a <= Len(s) /\ Char(s, a) = ":"
           /\ a + 1 <= Len(s) /\ Char(s, a + 1) # ";"
        THEN IF FindSemi(s, a + 1) <= Len(s)
             THEN FindSemi(s, a + 1) + 1 ELSE Len(s) + 1
        ELSE 0

\* re.sub(r'width\s*:\s*[^;]+;?', '', style, flags=re.IGNORECASE)
RECURSIVE sub_style_decl_from(_, _, _)
sub_style_decl_from(s, i, name) ==
    LET j == First({k \in i..Len(s) : DeclEnd(s, k, name) # 0})
    IN  IF j = 0 THEN SubSeq(s, i, Len(s))
        ELSE SubSeq(s, i, j - 1)
                 \o sub_style_decl_from(s, DeclEnd(s, j, name), name)

\* str.rstrip(';')
RECURSIVE rstrip_semi(_)
rstrip_semi(s) ==
    IF s # "" /\ Char(s, Len(s)) = ";"
    THEN rstrip_semi(SubSeq(s, 1, Len(s) - 1))
    ELSE s

\* the style left after the width and height declarations are removed
cleaned_style(style) ==
    rstrip_semi(strip(sub_style_decl_from(
        sub_style_decl_from(style, 1, "width"), 1, "height")))

\* The replacement f'style="{style}"' is a template of re.sub: a backslash
\* followed by a digit 1-9 is a group reference (the pattern has no group),
\* followed by a letter other than a b f n r t v g is a bad escape, and a
\* backslash at the end is a bad escape too: each raises re.error.  (Octal
\* escapes and \g<0> are not among the inputs of this model.)
GroupDigit == Digit \ {"0"}

KnownEscape == {"a", "b", "f", "n", "r", "t", "v", "g"}

IsLetter(c) ==
    \E k \in 1..26 : Char(UpperCase, k) = c \/ Char(LowerCase, k) = c

RECURSIVE template_raises_from(_, _)
template_raises_from(t, i) ==
    IF i > Len(t) THEN FALSE
    ELSE IF Char(t, i) # "\\" THEN template_raises_from(t, i + 1)
    ELSE IF i = Len(t) THEN TRUE
    ELSE IF Char(t, i + 1) \in GroupDigit THEN TRUE
    ELSE IF IsLetter(Char(t, i + 1)) /\ Char(t, i + 1) \notin KnownEscape
         THEN TRUE
    ELSE template_raises_from(t, i + 2)

\* the text a template without error stands for: \n \t \r \f \\ are the
\* characters they name, a backslash before a non-letter stays
RECURSIVE template_expand_from(_, _)
template_expand_from(t, i) ==
    IF i > Len(t) THEN ""
    ELSE IF Char(t, i) # "\\" \/ i = Len(t)
         THEN Char(t, i) \o template_expand_from(t, i + 1)
    ELSE LET c == Char(t, i + 1)
         IN  (CASE c = "n" -> "\n"
                [] c = "t" -> "\t"
                [] c = "r" -> "\r"
                [] c = "f" -> "\f"
                [] c = "\\" -> "\\"
                [] OTHER -> "\\" \o c) \o template_expand_from(t, i + 2)

\* style=["\'][^"\']*["\'] tried at i, case-sensitive: the index after the
\* match, 0 when it does not match at i
StyleAttrEnd(tag, i) ==
    IF /\ StartsWithAt(tag, i, "style=")
       /\ i + 6 <= Len(tag)
       /\ Char(tag, i + 6) \in Quote
       /\ FindQuote(tag, i + 7) # 0
    THEN FindQuote(tag, i + 7) + 1
    ELSE 0

\* re.sub(r'style=["\'][^"\']*["\']', f'style="{style}"', img_tag)
RECURSIVE sub_style_attr_from(_, _, _)
sub_style_attr_from(tag, i, repl) ==
    LET j == First({k \in i..Len(tag) : StyleAttrEnd(tag, k) # 0})
    IN  IF j = 0 THEN SubSeq(tag, i, Len(tag))
        ELSE SubSeq(tag, i, j - 1) \o repl
                 \o sub_style_attr_from(tag, StyleAttrEnd(tag, j), repl)

\* \s+style=["\'][^"\']*["\'] tried at i: the index after the match, 0 when
\* it does not match at i
SpacedStyleEnd(tag, i) ==
    IF Char(tag, i) \in Whitespace
    THEN StyleAttrEnd(tag, SkipWs(tag, i))
    ELSE 0

\* re.sub(r'\s+style=["\'][^"\']*["\']', '', img_tag)
RECURSIVE del_style_attr_from(_, _)
del_style_attr_from(tag, i) ==
    LET j == First({k \in i..Len(tag) : SpacedStyleEnd(tag, k) # 0})
    IN  IF j = 0 THEN SubSeq(tag, i, Len(tag))
        ELSE SubSeq(tag, i, j - 1)
                 \o del_style_attr_from(tag, SpacedStyleEnd(tag, j))

\* the style found by re.search in img_tag (group 1); j is the match
StyleOf(tag, j) == SubSeq(tag, j + 7, FindQuote(tag, j + 7) - 1)

\* clean_style raises re.error on this tag
clean_style_raises(img_tag) ==
    LET j == StyleSearch(img_tag, 1)
    IN  /\ j # 0
        /\ cleaned_style(StyleOf(img_tag, j)) # ""
        /\ template_raises_from(cleaned_style(StyleOf(img_tag, j)), 1)

clean_style(img_tag) ==
    LET j == StyleSearch(img_tag, 1)
        style == cleaned_style(StyleOf(img_tag, j))
    IN  IF j = 0 THEN img_tag
        ELSE IF style # ""
             THEN sub_style_attr_from(img_tag, 1,
                      "style=\"" \o template_expand_from(style, 1) \o "\"")
             ELSE del_style_attr_from(img_tag, 1)

\* <img[^>]+> tried at i under IGNORECASE: the index of the closing ">",
\* 0 when it does not match at i
ImgTagEnd(s, i) ==
    IF IStartsWithAt(s, i, "<img") /\ FindGt(s, i + 4) > i + 4
    THEN FindGt(s, i + 4)
    ELSE 0

\* re.sub(r'<img[^>]+>', clean_style, html_content, flags=re.IGNORECASE)
RECURSIVE sub_img_tags_from(_, _)
sub_img_tags_from(s, i) ==
    LET j == First({k \in i..Len(s) : ImgTagEnd(s, k) # 0})
    IN  IF j = 0 THEN SubSeq(s, i, Len(s))
        ELSE SubSeq(s, i, j - 1)
                 \o clean_style(SubSeq(s, j, ImgTagEnd(s, j)))
                 \o sub_img_tags_from(s, ImgTagEnd(s, j) + 1)

\* some <img ...> tag of s, from i on, makes clean_style raise
RECURSIVE img_tags_raise_from(_, _)
img_tags_raise_from(s, i) ==
    LET j == First({k \in i..Len(s) : ImgTagEnd(s, k) # 0})
    IN  IF j = 0 THEN FALSE
        ELSE \/ clean_style_raises(SubSeq(s, j, ImgTagEnd(s, j)))
             \/ img_tags_raise_from(s, ImgTagEnd(s, j) + 1)

\* the html after the two attribute passes
strip_dimension_attrs(html_content) ==
    sub_img_attr_from(sub_img_attr_from(html_content, 1, "width"), 1, "height")

clean_image_dimensions_raises(html_content) ==
    img_tags_raise_from(strip_dimension_attrs(html_content), 1)

clean_image_dimensions(html_content) ==
    sub_img_tags_from(strip_dimension_attrs(html_content), 1)

(***************************************************************************)
(* Image Inliner: extract_images_from_email, replace_cid_references        *)
(***************************************************************************)
\* the printable ASCII characters of codes 32..95 and 97..126
AsciiLow ==
    " !\"#$%&'()*+,-./0123456789:;<=>?@ABCDEFGHIJKLMNOPQRSTUVWXYZ[\\]^_"

AsciiHigh == "abcdefghijklmnopqrstuvwxyz{|}~"

IndexIn(s, c) == CHOOSE k \in 1..Len(s) : Char(s, k) = c

\* the byte a character of a payload stands for
OrdMap ==
    [c \in {Char(AsciiLow, k) : k \in 1..Len(AsciiLow)}
           \cup {Char(AsciiHigh, k) : k \in 1..Len(AsciiHigh)} |->
        IF \E k \in 1..Len(AsciiLow) : Char(AsciiLow, k) = c
        THEN 31 + IndexIn(AsciiLow, c)
        ELSE 96 + IndexIn(AsciiHigh, c)]

Ord(c) == OrdMap[c]

B64Alphabet ==
    "ABCDEFGHIJKLMNOPQRSTUVWXYZabcdefghijklmnopqrstuvwxyz0123456789+/"

B64Char(v) == Char(B64Alphabet, v + 1)

\* base64.b64encode(image_data).decode('utf-8')
RECURSIVE b64encode(_)
b64encode(data) ==
    IF data = "" THEN ""
    ELSE LET n  == Len(data)
             b1 == Ord(Char(data, 1))
             b2 == IF n >= 2 THEN Ord(Char(data, 2)) ELSE 0
             b3 == IF n >= 3 THEN Ord(Char(data, 3)) ELSE 0
             v  == b1 * 65536 + b2 * 256 + b3
         IN  B64Char(v \div 262144)
                 \o B64Char((v \div 4096) % 64)
                 \o (IF n >= 2 THEN B64Char((v \div 64) % 64) ELSE "=")
                 \o (IF n >= 3 THEN B64Char(v % 64) ELSE "=")
                 \o b64encode(SubSeq(data, 4, n))

\* f"data:{content_type};base64,{image_base64}"
data_uri(part) ==
    "data:" \o part.content_type \o ";base64," \o b64encode(part.payload)

\* content_id.strip('<>')
RECURSIVE strip_angle(_)
strip_angle(s) ==
    IF s # "" /\ Head(s) \in {"<", ">"} THEN strip_angle(Tail(s))
    ELSE IF s # "" /\ Char(s, Len(s)) \in {"<", ">"}
         THEN strip_angle(SubSeq(s, 1, Len(s) - 1))
         ELSE s

\* images[key] = value
Put(index, key, value) ==
    [k \in DOMAIN index \cup {key} |-> IF k = key THEN value ELSE index[k]]

\* the empty dict
EmptyIndex == [k \in {} |-> ""]

\* store_by_cid when the key without the prefix is forgotten
store_by_cid_prefixed_only(index, cid, uri) == Put(index, "cid:" \o cid, uri)

\* images[f"cid:{cid}"] = data_uri; images[cid] = data_uri
store_by_cid(index, cid, uri) == Put(Put(index, "cid:" \o cid, uri), cid, uri)

\* the body of the loop of extract_images_from_email for one part whose
\* headers can be read
index_image(index, part) ==
    IF StartsWithAt(part.content_type, 1, "image/") /\ part.payload # ""
    THEN LET byCid == IF part.content_id # ""
                      THEN store_by_cid(index, strip_angle(part.content_id),
                                        data_uri(part))
                      ELSE index
         IN  IF part.filename # ""
             THEN Put(byCid, part.filename, data_uri(part))
             ELSE byCid
    ELSE index

\* where the id of a reference stops: [^"\'\s>]+
IdStop == Quote \cup Whitespace \cup {">"}

\* src=["\']?cid:([^"\'\s>]+)["\']? tried at i under IGNORECASE, attr = src,
\* href or background: where the id starts
CidIdStart(s, i, attr) ==
    LET a == i + Len(attr) + 1
    IN  (IF a <= Len(s) /\ Char(s, a) \in Quote THEN a + 1 ELSE a) + 4

\* CidMatches when re.IGNORECASE is forgotten
CidMatches_case_sensitive(s, i, attr) ==
    /\ StartsWithAt(s, i, attr \o "=")
    /\ StartsWithAt(s, CidIdStart(s, i, attr) - 4, "cid:")
    /\ SkipNotIn(s, CidIdStart(s, i, attr), IdStop) > CidIdStart(s, i, attr)

\* the pattern matches at i
CidMatches(s, i, attr) ==
    /\ IStartsWithAt(s, i, attr \o "=")
    /\ IStartsWithAt(s, CidIdStart(s, i, attr) - 4, "cid:")
    /\ SkipNotIn(s, CidIdStart(s, i, attr), IdStop) > CidIdStart(s, i, attr)

\* the index after the match
CidEnd(s, i, attr) ==
    LET d == SkipNotIn(s, CidIdStart(s, i, attr), IdStop)
    IN  IF d <= Len(s) /\ Char(s, d) \in Quote THEN d + 1 ELSE d

\* replace_match: the text that replaces the match m whose group 1 is cid
replace_match(m, cid, attr, index) ==
    IF ("cid:" \o cid) \in DOMAIN index
    THEN attr \o "=\"" \o index["cid:" \o cid] \o "\""
    ELSE IF cid \in DOMAIN index
         THEN attr \o "=\"" \o index[cid] \o "\""
         ELSE m

\* re.sub(pattern, replace_match, html_content, flags=re.IGNORECASE)
RECURSIVE sub_cid_from(_, _, _, _)
sub_cid_from(s, i, attr, index) ==
    LET j == First({k \in i..Len(s) : CidMatches(s, k, attr)})
    IN  IF j = 0 THEN SubSeq(s, i, Len(s))
        ELSE SubSeq(s, i, j - 1)
                 \o replace_match(
                        SubSeq(s, j, CidEnd(s, j, attr) - 1),
                        SubSeq(s, CidIdStart(s, j, attr),
                               SkipNotIn(s, CidIdStart(s, j, attr), IdStop) - 1),
                        attr, index)
                 \o sub_cid_from(s, CidEnd(s, j, attr), attr, index)

\* the loop over the three patterns
rewrite_cid(html_content, index) ==
    sub_cid_from(
        sub_cid_from(
            sub_cid_from(html_content, 1, "src", index),
            1, "href", index),
        1, "background", index)

\* the early return of replace_cid_references
cid_noop(html_content, index) == html_content = "" \/ DOMAIN index = {}

replace_cid_references_raises(html_content, index, preserve) ==
    /\ ~cid_noop(html_content, index)
    /\ ~preserve
    /\ clean_image_dimensions_raises(rewrite_cid(html_content, index))

replace_cid_references(html_content, index, preserve) ==
    IF cid_noop(html_content, index) THEN html_content
    ELSE IF ~preserve
         THEN clean_image_dimensions(rewrite_cid(html_content, index))
         ELSE rewrite_cid(html_content, index)

(***************************************************************************)
(* html.escape                                                             *)
(***************************************************************************)
escape_char(c) ==
    CASE c = "&" -> "&amp;"
      [] c = "<" -> "&lt;"
      [] c = ">" -> "&gt;"
      [] c = "\"" -> "&quot;"
      [] c = "'" -> "&#x27;"
      [] OTHER -> c

RECURSIVE html_escape(_)
html_escape(s) ==
    IF s = "" THEN "" ELSE escape_char(Head(s)) \o html_escape(Tail(s))

(***************************************************************************)
(* Messages.  A part is what the code reads of it: get_content_type(),     *)
(* is_multipart(), str(part.get("Content-Disposition", "")),               *)
(* part.get("Content-ID", ""), get_filename() ("" for None) and            *)
(* get_payload(decode=True) (ASCII, so that decode('utf-8') keeps it       *)
(* character for character).  bad_header marks a part whose                *)
(* Content-Disposition the header parser of policy.default cannot parse    *)
(* (a value such as ";.*"): part.get("Content-Disposition") raises         *)
(* IndexError.                                                             *)
(***************************************************************************)
Leaf(ct, disp, cid, fname, payload) ==
    [content_type |-> ct, is_multipart |-> FALSE, disposition |-> disp,
     bad_header |-> FALSE, content_id |-> cid, filename |-> fname,
     payload |-> payload]

\* the root of a multipart message, the first part msg.walk() yields
Root ==
    [content_type |-> "multipart/mixed", is_multipart |-> TRUE,
     disposition |-> "", bad_header |-> FALSE, content_id |-> "",
     filename |-> "", payload |-> ""]

HtmlRef == Leaf("text/html", "", "", "", "<img src=\"cid:a\" width=1>x@y.z")

HtmlStyle == Leaf("text/html", "", "", "", "<img style=\"f:\\5B\">x@y.z")

HtmlEmpty == Leaf("text/html", "", "", "", "")

HtmlAttached ==
    Leaf("text/html", "attachment; filename=\"d.html\"", "", "d.html", "<i>d</i>")

PlainHello == Leaf("text/plain", "", "", "", "Hello & bye")

PlainAddress == Leaf("text/plain", "", "", "", "<x@y.z>")

PlainEmpty == Leaf("text/plain", "", "", "", "")

ImageA == Leaf("image/png", "inline", "<a>", "", "P")

ImageNamed == Leaf("image/png", "inline; filename=\"a\"", "", "a", "Q")

ImageEmpty == Leaf("image/png", "inline", "<e>", "", "")

BadHeader ==
    [Leaf("application/pdf", "", "", "", "D") EXCEPT !.bad_header = TRUE]

\* an image sent as an attachment
ImageAttached ==
    Leaf("image/png", "attachment; filename=\"p.png\"", "", "p.png", "R")

\* an image sent as an attachment whose disposition holds the word inline
ImageInlineNamed ==
    Leaf("image/png", "attachment; filename=\"inline.png\"", "", "inline.png",
         "S")

\* an attachment without payload, and one without filename
PdfEmpty ==
    Leaf("application/pdf", "attachment; filename=\"e.pdf\"", "", "e.pdf", "")

PdfUnnamed == Leaf("application/pdf", "attachment", "", "", "D")

LeafParts ==
    {HtmlRef, HtmlStyle, HtmlEmpty, HtmlAttached, PlainHello, PlainAddress,
     PlainEmpty, ImageA, ImageNamed, ImageEmpty, BadHeader, ImageAttached,
     ImageInlineNamed, PdfEmpty, PdfUnnamed}

\* a header of the message: msg.get(name) finds it with this value, or does
\* not find it
Header(value) == [present |-> TRUE, value |-> value]

Absent == [present |-> FALSE, value |-> ""]

NoHeaders == [Subject |-> Absent, From |-> Absent, To |-> Absent, Date |-> Absent]

\* msg.get(name, default)
get(m, name, default) ==
    IF m.headers[name].present THEN m.headers[name].value ELSE default

\* a file that cannot be opened or parsed; a message the parser finds to be
\* multipart has at least one part below its root
Unreadable == [readable |-> FALSE, walk |-> <<>>, headers |-> NoHeaders]

Message(walk, headers) ==
    [readable |-> TRUE, walk |-> walk, headers |-> headers]

Walks ==
    {<<p>> : p \in LeafParts}
    \cup {<<Root>> \o ps : ps \in SeqsUpTo(LeafParts, MaxParts) \ {<<>>}}

Messages == {Message(w, NoHeaders) : w \in Walks} \cup {Unreadable}

\* msg.is_multipart()
is_multipart(m) == m.walk[1].is_multipart

IsImage(part) == StartsWithAt(part.content_type, 1, "image/")

(***************************************************************************)
(* Body Resolver: extract_email_content and eml_to_html                    *)
(***************************************************************************)
NoContent == "<p>No readable content found</p>"

CouldNotDecode == "<p>Could not decode message content</p>"

\* pre_wrap when html.escape is forgotten
pre_wrap_unescaped(text) == "<pre>" \o text \o "</pre>"

\* f"<pre>{html.escape(text)}</pre>"
pre_wrap(text) == "<pre>" \o html_escape(text) \o "</pre>"

\* choose_body when the plain text is preferred
choose_body_plain_first(html, plain) ==
    IF plain # "" THEN pre_wrap(plain)
    ELSE IF html # "" THEN html
    ELSE NoContent

\* "Prefer HTML over plain text" at the end of the multipart walk
choose_body(html, plain) ==
    IF html # "" THEN html
    ELSE IF plain # "" THEN pre_wrap(plain)
    ELSE NoContent

\* the try block of a text/html part: the value html_body is left with.
\* html_body is assigned the decoded payload first; when
\* replace_cid_references raises, the except clause continues the loop and
\* html_body keeps that value.
html_part_body(part, index, preserve) ==
    IF replace_cid_references_raises(part.payload, index, preserve)
    THEN part.payload
    ELSE anonymize_content(
             replace_cid_references(part.payload, index, preserve))

\* "Skip explicit attachments (but not inline images)"
skipped_inline(part) ==
    Contains(part.disposition, "attachment") /\ ~IsImage(part)

\* "Skip attachments" of the text-only variant
skipped_text(part) == Contains(part.disposition, "attachment")

\* the single-part branch of extract_email_content, inline-image variant
single_body_inline(part, index, preserve) ==
    IF /\ part.content_type = "text/html"
       /\ replace_cid_references_raises(part.payload, index, preserve)
    THEN CouldNotDecode
    ELSE IF part.content_type = "text/html"
         THEN anonymize_content(
                  replace_cid_references(part.payload, index, preserve))
         ELSE pre_wrap(anonymize_content(part.payload))

\* the single-part branch of extract_email_content, text-only variant
single_body_text(part) ==
    IF part.content_type = "text/html"
    THEN anonymize_content(part.payload)
    ELSE pre_wrap(anonymize_content(part.payload))

NoRet == [success |-> FALSE, result |-> ""]

\* the header extraction when From and To are emitted as they are
header_values_unredacted(m) ==
    [subject |-> get(m, "Subject", "No Subject"),
     from_addr |-> get(m, "From", "Unknown"),
     to_addr |-> get(m, "To", "Unknown"),
     date |-> get(m, "Date", "Unknown")]

\* "Extract email headers": subject, from_addr, to_addr, date
header_values(m) ==
    [subject |-> get(m, "Subject", "No Subject"),
     from_addr |-> anonymize_content(get(m, "From", "Unknown")),
     to_addr |-> anonymize_content(get(m, "To", "Unknown")),
     date |-> get(m, "Date", "Unknown")]

\* no header value was extracted yet
NoRendered == [subject |-> "", from_addr |-> "", to_addr |-> "", date |-> ""]

\* a path: the directory and the file name in it
FilePath(dir, name) == [dir |-> dir, name |-> name]

\* the positions of the dots of a file name that end a stem: Path.stem cuts
\* the last suffix, and a name that only begins with a dot has no suffix
StemDots(name) == {k \in 2..Len(name) : Char(name, k) = "."}

\* Path(eml_file_path).stem
stem(name) ==
    IF StemDots(name) = {} \/ Char(name, Len(name)) = "." THEN name
    ELSE SubSeq(name, 1,
                (CHOOSE k \in StemDots(name) :
                     \A j \in StemDots(name) : j <= k) - 1)

\* os.path.join(output_dir, f"{base_name}.html"), as a name in output_dir
output_file(path) == stem(path.name) \o ".html"

\* the fields of the html written: the headers as html.escape leaves them,
\* the body and the attachment list
html_content(fields, content, atts) ==
    [subject |-> html_escape(fields.subject),
     from_addr |-> html_escape(fields.from_addr),
     to_addr |-> html_escape(fields.to_addr),
     date |-> html_escape(fields.date),
     body |-> content,
     attachments |-> atts]

\* no file was written to output_dir
NoFiles == [name \in {} |-> NoRendered]

\* the file converted when eml_to_html is called on its own
OneFile == FilePath("email", "m.eml")

\* no function is being applied on its own
NoCall ==
    [fn |-> "", input |-> "", pieces |-> <<>>, n |-> 0, once |-> "",
     twice |-> ""]

Init ==
    /\ msg \in Messages
    /\ \E v \in {"inline", "text"} :
           /\ variant = v
           /\ preserve_dimensions \in (IF v = "inline" THEN BOOLEAN ELSE {FALSE})
    /\ pc = "open"
    /\ idx = 0
    /\ images = EmptyIndex
    /\ html_body = ""
    /\ plain_body = ""
    /\ body = ""
    /\ attachments = <<>>
    /\ ret = NoRet
    /\ call = NoCall
    /\ eml_file_path = OneFile
    /\ rendered = NoRendered
    /\ outputs = NoFiles

\* an exception reaches "except Exception as e: return False, str(e)"
Raise(e) ==
    /\ pc' = "returned"
    /\ ret' = [success |-> FALSE, result |-> e]

\* the loop over msg.walk() goes to its next part, or ends and the code
\* continues at position next
Advance(next) ==
    IF idx < Len(msg.walk)
    THEN pc' = pc /\ idx' = idx + 1
    ELSE pc' = next /\ idx' = 1

\* the file is opened and parsed, and the headers are extracted
Open ==
    /\ pc = "open"
    /\ IF msg.readable
       THEN /\ pc' = IF variant = "inline" THEN "images" ELSE "content"
            /\ idx' = 1
            /\ ret' = ret
            /\ rendered' = header_values(msg)
       ELSE /\ Raise("No such file or directory")
            /\ idx' = idx
            /\ rendered' = rendered
    /\ UNCHANGED <<msg, variant, preserve_dimensions, images, html_body,
                   plain_body, body, attachments, call, eml_file_path,
                   outputs>>

\* one iteration of the loop of extract_images_from_email
ExtractImages ==
    /\ pc = "images"
    /\ LET part == msg.walk[idx]
       IN  IF part.bad_header
           THEN /\ Raise("string index out of range")
                /\ UNCHANGED <<idx, images>>
           ELSE /\ images' = index_image(images, part)
                /\ Advance("content")
                /\ ret' = ret
    /\ UNCHANGED <<msg, variant, preserve_dimensions, html_body, plain_body,
                   body, attachments, call>>
    /\ UNCHANGED FileVars

\* one iteration of the multipart walk of extract_email_content,
\* inline-image variant
WalkInline ==
    /\ pc = "content"
    /\ variant = "inline"
    /\ is_multipart(msg)
    /\ LET part == msg.walk[idx]
       IN  IF part.bad_header
           THEN /\ Raise("string index out of range")
                /\ UNCHANGED <<idx, html_body, plain_body>>
           ELSE /\ Advance("choose")
                /\ ret' = ret
                /\ IF skipped_inline(part)
                   THEN UNCHANGED <<html_body, plain_body>>
                   ELSE IF part.content_type = "text/html"
                   THEN /\ html_body' =
                               html_part_body(part, images, preserve_dimensions)
                        /\ plain_body' = plain_body
                   ELSE IF part.content_type = "text/plain" /\ plain_body = ""
                   THEN /\ plain_body' = anonymize_content(part.payload)
                        /\ html_body' = html_body
                   ELSE UNCHANGED <<html_body, plain_body>>
    /\ UNCHANGED <<msg, variant, preserve_dimensions, images, body,
                   attachments, call>>
    /\ UNCHANGED FileVars

\* the end of the multipart branch: the body is chosen
ChooseBody ==
    /\ pc = "choose"
    /\ body' = choose_body(html_body, plain_body)
    /\ pc' = "attachments"
    /\ idx' = 1
    /\ UNCHANGED <<msg, variant, preserve_dimensions, images, html_body,
                   plain_body, attachments, ret, call>>
    /\ UNCHANGED FileVars

\* the single-part branch, inline-image variant
SingleInline ==
    /\ pc = "content"
    /\ variant = "inline"
    /\ ~is_multipart(msg)
    /\ body' = single_body_inline(msg.walk[1], images, preserve_dimensions)
    /\ pc' = "attachments"
    /\ idx' = 1
    /\ UNCHANGED <<msg, variant, preserve_dimensions, images, html_body,
                   plain_body, attachments, ret, call>>
    /\ UNCHANGED FileVars

\* one iteration of the multipart walk of extract_email_content, text-only
\* variant; a text/html part returns at once
WalkText ==
    /\ pc = "content"
    /\ variant = "text"
    /\ is_multipart(msg)
    /\ LET part == msg.walk[idx]
       IN  IF part.bad_header
           THEN /\ Raise("string index out of range")
                /\ UNCHANGED <<idx, body>>
           ELSE /\ ret' = ret
                /\ IF skipped_text(part)
                   THEN Advance("write") /\ body' = body
                   ELSE IF part.content_type = "text/html"
                   THEN /\ body' = anonymize_content(part.payload)
                        /\ pc' = "write"
                        /\ idx' = 1
                   ELSE IF part.content_type = "text/plain" /\ body = ""
                   THEN /\ body' = pre_wrap(anonymize_content(part.payload))
                        /\ Advance("write")
                   ELSE Advance("write") /\ body' = body
    /\ UNCHANGED <<msg, variant, preserve_dimensions, images, html_body,
                   plain_body, attachments, call>>
    /\ UNCHANGED FileVars

\* the single-part branch, text-only variant
SingleText ==
    /\ pc = "content"
    /\ variant = "text"
    /\ ~is_multipart(msg)
    /\ body' = single_body_text(msg.walk[1])
    /\ pc' = "write"
    /\ idx' = 1
    /\ UNCHANGED <<msg, variant, preserve_dimensions, images, html_body,
                   plain_body, attachments, ret, call>>
    /\ UNCHANGED FileVars

\* listed when an image whose disposition also says inline is listed too
listed_inline_too(part) ==
    Contains(part.disposition, "attachment") /\ part.filename # ""

\* "Look for explicit attachments (not inline)"
listed(part) ==
    /\ Contains(part.disposition, "attachment")
    /\ part.filename # ""
    /\ (~IsImage(part) \/ ~Contains(part.disposition, "inline"))

\* the descriptor appended for a listed part
descriptor(part) ==
    [filename |-> part.filename, type |-> part.content_type,
     size |-> IF part.payload # "" THEN Len(part.payload) ELSE 0]

\* one iteration of the loop of extract_attachments_info
ExtractAttachments ==
    /\ pc = "attachments"
    /\ LET part == msg.walk[idx]
       IN  IF part.bad_header
           THEN /\ Raise("string index out of range")
                /\ UNCHANGED <<idx, attachments>>
           ELSE /\ attachments' = IF listed(part)
                                  THEN Append(attachments, descriptor(part))
                                  ELSE attachments
                /\ Advance("write")
                /\ ret' = ret
    /\ UNCHANGED <<msg, variant, preserve_dimensions, images, html_body,
                   plain_body, body, call>>
    /\ UNCHANGED FileVars

\* the html file is written (a file of that name is replaced) and
\* eml_to_html returns True and the name of the file
WriteHtml ==
    /\ pc = "write"
    /\ pc' = "returned"
    /\ ret' = [success |-> TRUE, result |-> output_file(eml_file_path)]
    /\ outputs' = Put(outputs, output_file(eml_file_path),
                      html_content(rendered, body, attachments))
    /\ UNCHANGED <<msg, variant, preserve_dimensions, idx, images, html_body,
                   plain_body, body, attachments, call, eml_file_path,
                   rendered>>

Next ==
    \/ Open
    \/ ExtractImages
    \/ WalkInline
    \/ ChooseBody
    \/ SingleInline
    \/ WalkText
    \/ SingleText
    \/ ExtractAttachments
    \/ WriteHtml

Spec == Init /\ [][Next]_vars

(***************************************************************************)
(* Harness for the functions checked on their own: a call record holds     *)
(* the function, its input and the results of applying it once and twice.  *)
(***************************************************************************)
AnonFrags == {"a", " ", "\n ", "()", "<>", "< >", "( )", "x@y.z", "Q@Y.Z", "&", "<b>"}

\* the converter is idle while a function is applied on its own
Idle ==
    /\ msg = Unreadable
    /\ variant = "inline"
    /\ pc = "idle"
    /\ idx = 0
    /\ html_body = ""
    /\ plain_body = ""
    /\ body = ""
    /\ attachments = <<>>
    /\ ret = NoRet
    /\ eml_file_path = OneFile
    /\ rendered = NoRendered
    /\ outputs = NoFiles

IdleVars == <<msg, variant, pc, idx, html_body, plain_body, body,
              attachments, ret, eml_file_path, rendered, outputs>>

AnonInit ==
    /\ Idle
    /\ images = EmptyIndex
    /\ preserve_dimensions = FALSE
    /\ \E fs \in SeqsUpTo(AnonFrags, MaxFrags) :
           call = [fn |-> "anonymize_content", input |-> Concat(fs),
                   pieces |-> fs, n |-> 0, once |-> "", twice |-> ""]

AnonApply ==
    /\ call.fn = "anonymize_content"
    /\ call.n = 0
    /\ call' = [call EXCEPT !.n = 1, !.once = anonymize_content(call.input)]
    /\ UNCHANGED <<IdleVars, images, preserve_dimensions>>

AnonApplyAgain ==
    /\ call.fn = "anonymize_content"
    /\ call.n = 1
    /\ call' = [call EXCEPT !.n = 2, !.twice = anonymize_content(call.once)]
    /\ UNCHANGED <<IdleVars, images, preserve_dimensions>>

AnonNext == AnonApply \/ AnonApplyAgain

SpecAnon == AnonInit /\ [][AnonNext]_vars

\* the value a call that raises leaves behind
Raised == "<<re.error>>"

\* An input is a text, a tag with up to MaxAttrs attributes, and a text.
TagOpen == {"<img", "<IMG", "<p"}

AttrFrags ==
    {" width=1", " WIDTH=\"20px\"", " height='3%'", " src=a",
     " style=\"width:1;a:b\"", " style='height: 2px;'", " STYLE=\"a:b\"",
     " style=\"max-width:9;line-height:1\"", " style=\"f:\\5B\""}

TagClose == {">", " />"}

TextAfter == {"", "t<img width=7><p width=4>"}

CleanInit ==
    /\ Idle
    /\ images = EmptyIndex
    /\ preserve_dimensions = FALSE
    /\ \E open \in TagOpen, attrs \in SeqsUpTo(AttrFrags, MaxAttrs),
       close \in TagClose, after \in TextAfter :
           call = [fn |-> "clean_image_dimensions",
                   input |-> open \o Concat(attrs) \o close \o after,
                   pieces |-> attrs, n |-> 0, once |-> "", twice |-> ""]

CleanResult(h) ==
    IF clean_image_dimensions_raises(h) THEN Raised
    ELSE clean_image_dimensions(h)

CleanApply ==
    /\ call.fn = "clean_image_dimensions"
    /\ call.n = 0
    /\ call' = [call EXCEPT !.n = 1, !.once = CleanResult(call.input)]
    /\ UNCHANGED <<IdleVars, images, preserve_dimensions>>

CleanApplyAgain ==
    /\ call.fn = "clean_image_dimensions"
    /\ call.n = 1
    /\ call.once # Raised
    /\ call' = [call EXCEPT !.n = 2, !.twice = CleanResult(call.once)]
    /\ UNCHANGED <<IdleVars, images, preserve_dimensions>>

CleanNext == CleanApply \/ CleanApplyAgain

SpecClean == CleanInit /\ [][CleanNext]_vars

\* extract_images_from_email as a whole, for parts whose headers can be read
RECURSIVE index_images_from(_, _, _)
index_images_from(walk, k, index) ==
    IF k > Len(walk) THEN index
    ELSE index_images_from(walk, k + 1, index_image(index, walk[k]))

extract_images_from_email(walk) == index_images_from(walk, 1, EmptyIndex)

ImageB == Leaf("image/gif", "inline", "<b>", "", "GIF")

ImageFile == Leaf("image/png", "inline; filename=\"f.png\"", "", "f.png", "Q")

ImageLists == {<<>>, <<ImageA>>, <<ImageA, ImageB, ImageFile>>}

\* An input html is built from pieces pre ref post.  ref is an attribute
\* that refers to id through attr (or "" when the piece holds no reference)
\* and uri is the data URI of the image part that carries that id.
Piece(pre, ref, post, attr, id, uri) ==
    [pre |-> pre, ref |-> ref, post |-> post, attr |-> attr, id |-> id,
     uri |-> uri]

CidPieces ==
    {Piece("<img ", "src=\"cid:a\"", ">", "src", "a", "data:image/png;base64,UA=="),
     Piece("<IMG ", "SRC='CID:a'", " alt=x>", "src", "a", "data:image/png;base64,UA=="),
     Piece("<img ", "src=cid:f.png", ">", "src", "f.png", "data:image/png;base64,UQ=="),
     Piece("<a ", "href=\"cid:b\"", ">l</a>", "href", "b", "data:image/gif;base64,R0lG"),
     Piece("<td ", "background=cid:zz", " >", "background", "zz", ""),
     Piece("<img ", "src=\"cid:A\"", ">", "src", "A", ""),
     Piece("<p>cid:a ", "", "src</p>", "", "", ""),
     Piece("<img ", "src=\"http://h/a\"", ">", "", "", "")}

PieceText(piece) == piece.pre \o piece.ref \o piece.post

CidInit ==
    /\ variant = "inline"
    /\ pc = "idle"
    /\ idx = 0
    /\ html_body = ""
    /\ plain_body = ""
    /\ body = ""
    /\ attachments = <<>>
    /\ ret = NoRet
    /\ eml_file_path = OneFile
    /\ rendered = NoRendered
    /\ outputs = NoFiles
    /\ \E imgs \in ImageLists :
           /\ msg = Message(<<Root>> \o imgs, NoHeaders)
           /\ images = extract_images_from_email(<<Root>> \o imgs)
    /\ preserve_dimensions \in BOOLEAN
    /\ \E ps \in SeqsUpTo(CidPieces, MaxRefs) :
           call = [fn |-> "replace_cid_references",
                   input |-> Concat([k \in 1..Len(ps) |-> PieceText(ps[k])]),
                   pieces |-> ps, n |-> 0, once |-> "", twice |-> ""]

CidApply ==
    /\ call.fn = "replace_cid_references"
    /\ call.n = 0
    /\ call' = [call EXCEPT
                   !.n = 1,
                   !.once = replace_cid_references(call.input, images,
                                                   preserve_dimensions)]
    /\ UNCHANGED <<IdleVars, images, preserve_dimensions>>

CidNext == CidApply

SpecCid == CidInit /\ [][CidNext]_vars

\* The header extraction is checked on messages whose body is simple and
\* whose headers vary: each header is absent or has one of these values.
SubjectValues == {Absent, Header(""), Header("Hi <x@y.z> & co")}

FromValues == {Absent, Header("A <x@y.z>"), Header("Q@Y.Z")}

ToValues == {Absent, Header("q@y.z, b@c.d")}

DateValues == {Absent, Header("Mon, 1 Jan 2024 x@y.z")}

HeaderSets ==
    {[Subject |-> a, From |-> b, To |-> c, Date |-> d] :
        a \in SubjectValues, b \in FromValues, c \in ToValues,
        d \in DateValues}

HeadersInit ==
    /\ \E w \in {<<PlainHello>>, <<Root, PlainHello>>}, h \in HeaderSets :
           msg = Message(w, h)
    /\ \E v \in {"inline", "text"} :
           /\ variant = v
           /\ preserve_dimensions \in (IF v = "inline" THEN BOOLEAN ELSE {FALSE})
    /\ pc = "open"
    /\ idx = 0
    /\ images = EmptyIndex
    /\ html_body = ""
    /\ plain_body = ""
    /\ body = ""
    /\ attachments = <<>>
    /\ ret = NoRet
    /\ call = NoCall
    /\ eml_file_path = OneFile
    /\ rendered = NoRendered
    /\ outputs = NoFiles

SpecHeaders == HeadersInit /\ [][Next]_vars

(***************************************************************************)
(* Batch Converter: convert_all_eml_files.  The batch is the call record:  *)
(* the files of input_dir, the list the scan builds, the position of the   *)
(* loop, success_count, failed_files and the calls of eml_to_html made.    *)
(***************************************************************************)
\* number of files below input_dir
MaxFiles == 3

\* the paths a file of input_dir may have, in the order os.walk yields them
TreePaths ==
    << FilePath("email", "n.txt"), FilePath("email", "x.eml"),
       FilePath("email", "y.EML"), FilePath("email", "x.EML"),
       FilePath("email/sub", "x.eml") >>

\* what a file may hold: a single-part message, a multipart message, a
\* message with a part whose header cannot be read, a file that cannot be
\* opened
FileContents ==
    {Message(<<PlainHello>>, NoHeaders), Message(<<Root, PlainHello>>, NoHeaders),
     Message(<<Root, BadHeader>>, NoHeaders), Unreadable}

\* the trees of input_dir: up to MaxFiles of the paths, each with a content
Trees ==
    UNION {[S -> FileContents] :
              S \in {T \in SUBSET (1..Len(TreePaths)) : Cardinality(T) <= MaxFiles}}

\* file.lower().endswith('.eml')
is_eml(name) ==
    /\ Len(name) >= 4
    /\ Lower(SubSeq(name, Len(name) - 3, Len(name))) = ".eml"

\* "Find all .eml files": the files of tree from position k on that the scan
\* appends to eml_files
RECURSIVE find_eml_files(_, _)
find_eml_files(tree, k) ==
    IF k > Len(TreePaths) THEN <<>>
    ELSE (IF k \in DOMAIN tree /\ is_eml(TreePaths[k].name)
          THEN <<[path |-> TreePaths[k], content |-> tree[k]]>>
          ELSE <<>>) \o find_eml_files(tree, k + 1)

Batch(tree) ==
    [fn |-> "convert_all_eml_files", tree |-> tree, eml_files |-> <<>>,
     i |-> 0, success_count |-> 0, failed_files |-> <<>>, attempted |-> <<>>]

BatchInit ==
    /\ \E tree \in Trees : call = Batch(tree)
    /\ variant \in {"inline", "text"}
    /\ preserve_dimensions = FALSE
    /\ pc = "scan"
    /\ msg = Unreadable
    /\ idx = 0
    /\ images = EmptyIndex
    /\ html_body = ""
    /\ plain_body = ""
    /\ body = ""
    /\ attachments = <<>>
    /\ ret = NoRet
    /\ eml_file_path = OneFile
    /\ rendered = NoRendered
    /\ outputs = NoFiles

\* the scan of input_dir; without .eml files the function returns
Scan ==
    /\ pc = "scan"
    /\ call' = [call EXCEPT !.eml_files = find_eml_files(call.tree, 1),
                            !.i = 1]
    /\ pc' = IF find_eml_files(call.tree, 1) = <<>> THEN "done" ELSE "loop"
    /\ UNCHANGED <<msg, variant, preserve_dimensions, idx, images, html_body,
                   plain_body, body, attachments, ret, eml_file_path, rendered,
                   outputs>>

\* the loop takes its next file and calls eml_to_html on it
Convert ==
    /\ pc = "loop"
    /\ call.i <= Len(call.eml_files)
    /\ eml_file_path' = call.eml_files[call.i].path
    /\ msg' = call.eml_files[call.i].content
    /\ call' = [call EXCEPT
                   !.attempted = Append(@, call.eml_files[call.i].path)]
    /\ pc' = "open"
    /\ idx' = 0
    /\ images' = EmptyIndex
    /\ html_body' = ""
    /\ plain_body' = ""
    /\ body' = ""
    /\ attachments' = <<>>
    /\ ret' = NoRet
    /\ rendered' = NoRendered
    /\ UNCHANGED <<variant, preserve_dimensions, outputs>>

\* record_failure when the failed file is not kept
record_failure_dropped(failed, file, result) == failed

\* failed_files.append((eml_file, result))
record_failure(failed, file, result) ==
    Append(failed, [file |-> file, error |-> result])

\* eml_to_html has returned to the loop: the outcome is counted
Record ==
    /\ pc = "returned"
    /\ call.fn = "convert_all_eml_files"
    /\ call' = IF ret.success
               THEN [call EXCEPT !.success_count = @ + 1, !.i = @ + 1]
               ELSE [call EXCEPT
                        !.failed_files =
                            record_failure(@, eml_file_path, ret.result),
                        !.i = @ + 1]
    /\ pc' = "loop"
    /\ UNCHANGED <<msg, variant, preserve_dimensions, idx, images, html_body,
                   plain_body, body, attachments, ret, eml_file_path, rendered,
                   outputs>>

\* the loop has ended: the summary is printed
Summary ==
    /\ pc = "loop"
    /\ call.i > Len(call.eml_files)
    /\ pc' = "done"
    /\ UNCHANGED <<msg, variant, preserve_dimensions, idx, images, html_body,
                   plain_body, body, attachments, ret, call, eml_file_path,
                   rendered, outputs>>

BatchNext == Next \/ Scan \/ Convert \/ Record \/ Summary

SpecBatch == BatchInit /\ [][BatchNext]_vars

(***************************************************************************)
(* Index Builder: format_file_size.  A byte count is held in base 1024,    *)
(* most significant limb first, so that counts of 1024^4 bytes and more    *)
(* are within reach; the float the loop divides is the limbs before the    *)
(* point (whole) and the limbs behind it (frac).  Counts below 2^53 are    *)
(* exact floats and a division by 1024.0 only moves the point.             *)
(***************************************************************************)
\* for unit in ['B', 'KB', 'MB', 'GB']
Units == <<"B", "KB", "MB", "GB">>

\* the limbs a byte count is made of
LimbValues == {0, 1, 256, 768, 1023}

\* the byte counts: one limb for each unit and one for what is beyond
Sizes == [1..(Len(Units) + 1) -> LimbValues]

\* the integer a sequence of limbs stands for
RECURSIVE WholeValue(_)
WholeValue(limbs) ==
    IF limbs = <<>> THEN 0
    ELSE WholeValue(SubSeq(limbs, 1, Len(limbs) - 1)) * 1024
             + limbs[Len(limbs)]

\* size < 1024.0
below_1024(size) ==
    \A k \in 1..(Len(size.whole) - 1) : size.whole[k] = 0

\* size /= 1024.0
div_1024(size) ==
    [whole |-> SubSeq(size.whole, 1, Len(size.whole) - 1),
     frac  |-> <<size.whole[Len(size.whole)]>> \o size.frac]

\* ten times the fraction frac: the limbs behind the point (rest) and what
\* is carried before it (carry)
RECURSIVE times_ten(_)
times_ten(frac) ==
    IF frac = <<>> THEN [carry |-> 0, rest |-> <<>>]
    ELSE LET low == times_ten(Tail(frac))
             t   == Head(frac) * 10 + low.carry
         IN  [carry |-> t \div 1024, rest |-> <<t % 1024>> \o low.rest]

\* the fraction rest compared with one half: 1 above, 0 equal, -1 below
half_cmp(rest) ==
    IF rest = <<>> THEN -1
    ELSE IF Head(rest) > 512 THEN 1
    ELSE IF Head(rest) < 512 THEN -1
    ELSE IF \E k \in 2..Len(rest) : rest[k] # 0 THEN 1 ELSE 0

\* the number of tenths "{size:.1f}" shows: the nearest, a tie to the even
tenths(size) ==
    LET t    == times_ten(size.frac)
        down == WholeValue(size.whole) * 10 + t.carry
        c    == half_cmp(t.rest)
    IN  IF c > 0 \/ (c = 0 /\ down % 2 = 1) THEN down + 1 ELSE down

Digits == <<"0", "1", "2", "3", "4", "5", "6", "7", "8", "9">>

\* str of a natural number
RECURSIVE ToStr(_)
ToStr(n) ==
    IF n < 10 THEN Digits[n + 1] ELSE ToStr(n \div 10) \o Digits[(n % 10) + 1]

\* f"{size:.1f} {unit}"
fmt_size(size, unit) ==
    ToStr(tenths(size) \div 10) \o "." \o ToStr(tenths(size) % 10)
        \o " " \o unit

\* the loop over units from the k-th on, then the return after the loop
RECURSIVE format_from(_, _, _, _)
format_from(units, last, size, k) ==
    IF k > Len(units) THEN fmt_size(size, last)
    ELSE IF below_1024(size) THEN fmt_size(size, units[k])
    ELSE format_from(units, last, div_1024(size), k + 1)

\* format_file_size when GB is the unit of the return after the loop
format_file_size_gb_last(size) ==
    format_from(SubSeq(Units, 1, Len(Units) - 1), Units[Len(Units)],
                [whole |-> size, frac |-> <<>>], 1)

format_file_size(size) ==
    format_from(Units, "TB", [whole |-> size, frac |-> <<>>], 1)

SizeInit ==
    /\ Idle
    /\ images = EmptyIndex
    /\ preserve_dimensions = FALSE
    /\ \E size \in Sizes :
           call = [fn |-> "format_file_size", size |-> size, n |-> 0,
                   out |-> ""]

SizeApply ==
    /\ call.fn = "format_file_size"
    /\ call.n = 0
    /\ call' = [call EXCEPT !.n = 1, !.out = format_file_size(call.size)]
    /\ UNCHANGED <<IdleVars, images, preserve_dimensions>>

SizeNext == SizeApply

SpecSize == SizeInit /\ [][SizeNext]_vars

(***************************************************************************)
(* Index Builder: extract_email_info.  The files it reads are the pages    *)
(* eml_to_html writes.                                                     *)
(***************************************************************************)
\* the text of the file eml_to_html writes for a page without attachments;
\* the rules of the style element, which hold no label, are left out
page_text(page) ==
    "<!DOCTYPE html>\n<html lang=\"en\">\n<head>\n"
        \o "    <meta charset=\"UTF-8\">\n"
        \o "    <title>" \o page.subject \o "</title>\n"
        \o "    <style>\n    </style>\n</head>\n<body>\n"
        \o "    <div class=\"email-container\">\n"
        \o "        <div class=\"email-header\">\n"
        \o "            <div class=\"header-field\">\n"
        \o "                <span class=\"header-label\">Subject:</span> "
        \o page.subject \o "\n            </div>\n"
        \o "            <div class=\"header-field\">\n"
        \o "                <span class=\"header-label\">From:</span> "
        \o page.from_addr \o "\n            </div>\n"
        \o "            <div class=\"header-field\">\n"
        \o "                <span class=\"header-label\">To:</span> "
        \o page.to_addr \o "\n            </div>\n"
        \o "            <div class=\"header-field\">\n"
        \o "                <span class=\"header-label\">Date:</span> "
        \o page.date \o "\n            </div>\n"
        \o "        </div>\n"
        \o "        <div class=\"email-body\">\n            "
        \o page.body \o "\n        </div>\n        \n    </div>\n"
        \o "</body>\n</html>"

\* s[:n]
take(s, n) == IF Len(s) <= n THEN s ELSE SubSeq(s, 1, n)

\* first index >= i where the lower-case text p occurs in s whatever the
\* case of s (re.IGNORECASE), 0 when there is none
IFind(s, i, p) ==
    First({k \in i..(Len(s) - Len(p) + 1) : IStartsWithAt(s, k, p)})

\* first index >= i where p occurs in s, 0 when there is none
Find(s, i, p) ==
    First({k \in i..(Len(s) - Len(p) + 1) : StartsWithAt(s, k, p)})

\* re.search(before \s*(.*?)\s* after, s, re.IGNORECASE | re.DOTALL) and
\* match.group(1).strip(): the match starts at the first before that an
\* after follows, and the group ends ahead of the first such after
search_group(s, before, after) ==
    LET p == IFind(s, 1, before)
        q == IF p = 0 THEN 0 ELSE IFind(s, p + Len(before), after)
    IN  IF q = 0 THEN [found |-> FALSE, group |-> ""]
        ELSE [found |-> TRUE,
              group |-> strip(SubSeq(s, p + Len(before), q - 1))]

\* str.replace(old, new)
RECURSIVE replace(_, _, _)
replace(s, old, new) ==
    LET p == Find(s, 1, old)
    IN  IF p = 0 THEN s
        ELSE SubSeq(s, 1, p - 1) \o new
                 \o replace(SubSeq(s, p + Len(old), Len(s)), old, new)

\* "Clean up any HTML entities"; the date is cleaned of the first three only
clean_entities(s, quotes) ==
    LET t == replace(replace(replace(s, "&amp;", "&"), "&lt;", "<"),
                     "&gt;", ">")
    IN  IF quotes THEN replace(replace(t, "&quot;", "\""), "&#39;", "'")
        ELSE t

Pattern(before, after) == [before |-> before, after |-> after]

subject_patterns ==
    << Pattern("<title>", "</title>"),
       Pattern("subject:</span>", "</div>"),
       Pattern("subject:</span>", "<"),
       Pattern("<span class=\"header-label\">subject:</span>", "</div>"),
       Pattern("subject:", "<") >>

from_patterns ==
    << Pattern("from:</span>", "</div>"),
       Pattern("from:</span>", "<"),
       Pattern("<span class=\"header-label\">from:</span>", "</div>"),
       Pattern("from:", "<") >>

date_patterns ==
    << Pattern("date:</span>", "</div>"),
       Pattern("date:</span>", "<"),
       Pattern("<span class=\"header-label\">date:</span>", "</div>"),
       Pattern("date:", "<") >>

\* the loop over the patterns of a field from the k-th on: every match
\* assigns the field, and a match that is neither empty nor "Unknown" ends
\* the loop
RECURSIVE extract_field(_, _, _, _, _)
extract_field(content, pats, k, value, quotes) ==
    IF k > Len(pats) THEN value
    ELSE LET m == search_group(content, pats[k].before, pats[k].after)
             v == clean_entities(m.group, quotes)
         IN  IF ~m.found
             THEN extract_field(content, pats, k + 1, value, quotes)
             ELSE IF v # "" /\ v # "Unknown" THEN v
             ELSE extract_field(content, pats, k + 1, v, quotes)

\* re.sub(r'^\[(.*?)\]\s*', r'[\1] ', subject)
clean_list_prefix(subject) ==
    LET e == Find(subject, 2, "]")
    IN  IF subject # "" /\ Char(subject, 1) = "[" /\ e # 0
        THEN SubSeq(subject, 1, e) \o " "
                 \o SubSeq(subject, SkipWs(subject, e + 1), Len(subject))
        ELSE subject

\* "Fallback: Use filename for subject if extraction failed"
subject_or_filename(subject, filename) ==
    IF subject = "Unknown" \/ subject = "No Subject" \/ subject = ""
           \/ Len(subject) < 3
    THEN clean_list_prefix(replace(filename, ".html", ""))
    ELSE subject

\* a file of the folder: its name, whether it can be read as utf-8 text,
\* its text
HtmlFile(name, readable, text) ==
    [name |-> name, readable |-> readable, text |-> text]

\* the size of a file of fewer than 1024 * 1024 bytes as a byte count
file_size(file) ==
    [k \in 1..(Len(Units) + 1) |->
        IF k = Len(Units) + 1 THEN Len(file.text) % 1024
        ELSE IF k = Len(Units) THEN Len(file.text) \div 1024
        ELSE 0]

extract_email_info(file) ==
    IF ~file.readable
    THEN [filename |-> file.name,
          subject |-> replace(file.name, ".html", ""),
          from |-> "Unknown", date |-> "Unknown", size |-> file_size(file)]
    ELSE LET content == take(file.text, 5000)
         IN  [filename |-> file.name,
              subject |->
                  take(subject_or_filename(
                           extract_field(content, subject_patterns, 1,
                                         "Unknown", TRUE),
                           file.name), 150),
              from |-> take(extract_field(content, from_patterns, 1,
                                          "Unknown", TRUE), 100),
              date |-> take(extract_field(content, date_patterns, 1,
                                          "Unknown", FALSE), 50),
              size |-> file_size(file)]

\* the page eml_to_html writes for a message with the headers h and a plain
\* text body
written_page(h, text) ==
    html_content(header_values(Message(<<PlainHello>>, h)), pre_wrap(text),
                 <<>>)

InfoSubjects ==
    {Absent, Header("ab"), Header("Hi <b> & co"), Header("Re: Date: 5 May"),
     Header("Unknown"), Header("it's \"ok\""), Header("a &lt; b")}

InfoFroms == {Absent, Header("A <x@y.z>"), Header("Bob <b@c.d>")}

InfoDates == {Absent, Header("Mon, 1 Jan 2024")}

InfoNames == {"m.html", "[pu]  x.html"}

InfoInit ==
    /\ Idle
    /\ images = EmptyIndex
    /\ preserve_dimensions = FALSE
    /\ \E a \in InfoSubjects, b \in InfoFroms, d \in InfoDates,
          name \in InfoNames, readable \in BOOLEAN :
           call = [fn |-> "extract_email_info",
                   headers |-> [Subject |-> a, From |-> b, To |-> Absent,
                                Date |-> d],
                   file |-> HtmlFile(name, readable,
                                page_text(written_page(
                                    [Subject |-> a, From |-> b, To |-> Absent,
                                     Date |-> d], "From: me <x>"))),
                   n |-> 0,
                   out |-> [filename |-> "", subject |-> "", from |-> "",
                            date |-> "", size |-> <<>>]]

InfoApply ==
    /\ call.fn = "extract_email_info"
    /\ call.n = 0
    /\ call' = [call EXCEPT !.n = 1, !.out = extract_email_info(call.file)]
    /\ UNCHANGED <<IdleVars, images, preserve_dimensions>>

InfoNext == InfoApply

SpecInfo == InfoInit /\ [][InfoNext]_vars

(***************************************************************************)
(* Index Builder: generate_index_html.                                     *)
(***************************************************************************)
\* a < b for two strings, as Python compares them: by code points
RECURSIVE StrLess(_, _)
StrLess(a, b) ==
    IF b = "" THEN FALSE
    ELSE IF a = "" THEN TRUE
    ELSE IF Head(a) = Head(b) THEN StrLess(Tail(a), Tail(b))
    ELSE Ord(Head(a)) < Ord(Head(b))

\* file.endswith('.html') and file != 'index.html'
is_indexed(name) ==
    /\ Len(name) >= 5
    /\ SubSeq(name, Len(name) - 4, Len(name)) = ".html"
    /\ name # "index.html"

\* the loop over os.listdir(html_folder) from the k-th file on: html_files
RECURSIVE list_html_files(_, _)
list_html_files(folder, k) ==
    IF k > Len(folder) THEN <<>>
    ELSE (IF is_indexed(folder[k].name)
          THEN <<extract_email_info(folder[k])>> ELSE <<>>)
             \o list_html_files(folder, k + 1)

\* sort_key when the case of the subject counts
sort_key_as_written(info) == info.subject

\* key=lambda x: x['subject'].lower()
sort_key(info) == Lower(info.subject)

\* list.sort(key=...) is stable: an entry goes behind the entries that do
\* not sort after it
sort_insert(sorted, info) ==
    LET at == First({k \in 1..Len(sorted) :
                  StrLess(sort_key(info), sort_key(sorted[k]))})
        cut == IF at = 0 THEN Len(sorted) ELSE at - 1
    IN  SubSeq(sorted, 1, cut) \o <<info>>
            \o SubSeq(sorted, cut + 1, Len(sorted))

RECURSIVE sort_by_subject(_)
sort_by_subject(infos) ==
    IF infos = <<>> THEN <<>>
    ELSE sort_insert(sort_by_subject(SubSeq(infos, 1, Len(infos) - 1)),
                     infos[Len(infos)])

\* "Generate email rows for the table": the cells of the rows
email_rows(folder_name, html_files) ==
    [k \in 1..Len(html_files) |->
        [index |-> k,
         link |-> folder_name \o "/" \o html_files[k].filename,
         subject |-> html_files[k].subject,
         from |-> html_files[k].from,
         date |-> html_files[k].date,
         size |-> format_file_size(html_files[k].size)]]

generate_index_html(folder_name, folder) ==
    email_rows(folder_name, sort_by_subject(list_html_files(folder, 1)))

\* the page written for a message with the subject subject
SubjectPage(subject) ==
    page_text(written_page([Subject |-> Header(subject),
                            From |-> Header("Bob <b@c.d>"), To |-> Absent,
                            Date |-> Absent], "Hi"))

FileB == HtmlFile("k1.html", TRUE, SubjectPage("B"))
FileA == HtmlFile("k2.html", TRUE, SubjectPage("a"))
FileC == HtmlFile("k3.html", TRUE, SubjectPage("C"))
FileBee == HtmlFile("k4.html", TRUE, SubjectPage("Bee"))
FileAnt == HtmlFile("k5.html", TRUE, SubjectPage("ant"))
FileIndex == HtmlFile("index.html", TRUE, SubjectPage("Email Index"))
FileNote == HtmlFile("n.txt", TRUE, "Subject: note <")

FolderFiles ==
    {FileB, FileA, FileC, FileBee, FileAnt, FileIndex, FileNote}

\* the listings of a folder of up to n of the files, without the order
\* os.listdir happens to give
RECURSIVE Listings(_)
Listings(n) ==
    IF n = 0 THEN {<<>>}
    ELSE Listings(n - 1)
             \cup {Append(l, f) :
                      l \in {m \in Listings(n - 1) : Len(m) = n - 1},
                      f \in FolderFiles}

Folders ==
    {l \in Listings(MaxFiles) :
        \A j, k \in 1..Len(l) : l[j].name = l[k].name => j = k}

IndexInit ==
    /\ Idle
    /\ images = EmptyIndex
    /\ preserve_dimensions = FALSE
    /\ \E folder \in Folders :
           call = [fn |-> "generate_index_html", folder |-> folder, n |-> 0,
                   rows |-> <<>>]

IndexApply ==
    /\ call.fn = "generate_index_html"
    /\ call.n = 0
    /\ call' = [call EXCEPT
                   !.n = 1,
                   !.rows = generate_index_html("html", call.folder)]
    /\ UNCHANGED <<IdleVars, images, preserve_dimensions>>

IndexNext == IndexApply

SpecIndex == IndexInit /\ [][IndexNext]_vars

(***************************************************************************)
(* extract_email_content of the two variants on one message: the message   *)
(* is parsed, extract_email_content of the inline-image variant is applied *)
(* with preserve_dimensions set, its outcome is kept, and                  *)
(* extract_email_content of the text-only variant is applied to the same   *)
(* message.                                                                *)
(***************************************************************************)
\* the parsed messages without an image part
ImageFree ==
    {m \in Messages :
        m.readable /\ \A k \in 1..Len(m.walk) : ~IsImage(m.walk[k])}

PairInit ==
    /\ msg \in ImageFree
    /\ variant = "inline"
    /\ preserve_dimensions = TRUE
    /\ pc = "open"
    /\ idx = 0
    /\ images = EmptyIndex
    /\ html_body = ""
    /\ plain_body = ""
    /\ body = ""
    /\ attachments = <<>>
    /\ ret = NoRet
    /\ call = [fn |-> "extract_email_content", n |-> 0, raised |-> FALSE,
               body |-> ""]
    /\ eml_file_path = OneFile
    /\ rendered = NoRendered
    /\ outputs = NoFiles

\* extract_email_content of the inline-image variant has returned its body
\* or has raised: the text-only variant is applied to the same message
OtherVariant ==
    /\ pc \in {"attachments", "returned"}
    /\ call.fn = "extract_email_content"
    /\ call.n = 0
    /\ call' = [call EXCEPT !.n = 1, !.raised = (pc = "returned"),
                            !.body = body]
    /\ variant' = "text"
    /\ pc' = "content"
    /\ idx' = 1
    /\ images' = EmptyIndex
    /\ html_body' = ""
    /\ plain_body' = ""
    /\ body' = ""
    /\ ret' = NoRet
    /\ UNCHANGED <<msg, preserve_dimensions, attachments, eml_file_path,
                   rendered, outputs>>

PairNext ==
    \/ Open
    \/ ExtractImages
    \/ WalkInline
    \/ ChooseBody
    \/ SingleInline
    \/ OtherVariant
    \/ WalkText
    \/ SingleText

SpecPair == PairInit /\ [][PairNext]_vars

(***************************************************************************)
(* Properties                                                              *)
(***************************************************************************)
Returned == pc = "returned"

Succeeded == pc = "returned" /\ ret.success

\* the parts of m the multipart walk of the inline-image variant reads as
\* the HTML body, and as a plain body
HtmlParts(m) ==
    {k \in 1..Len(m.walk) :
        m.walk[k].content_type = "text/html" /\ ~skipped_inline(m.walk[k])}

PlainParts(m) ==
    {k \in 1..Len(m.walk) :
        m.walk[k].content_type = "text/plain" /\ ~skipped_inline(m.walk[k])}

FirstIn(S) == CHOOSE k \in S : \A j \in S : k <= j

LastIn(S) == CHOOSE k \in S : \A j \in S : j <= k

\* C1 (as stated): for a multipart message the body is the HTML body
\* whenever a non-attachment text/html part was found, otherwise the first
\* plain-text body escaped and wrapped in <pre>, otherwise the placeholder.
C1_HtmlWheneverFound ==
    (Succeeded /\ variant = "inline" /\ is_multipart(msg)) =>
        IF HtmlParts(msg) # {}
        THEN \E k \in HtmlParts(msg) :
                 body = html_part_body(msg.walk[k], images, preserve_dimensions)
        ELSE IF PlainParts(msg) # {}
        THEN body = "<pre>" \o html_escape(anonymize_content(
                        msg.walk[FirstIn(PlainParts(msg))].payload)) \o "</pre>"
        ELSE body = NoContent

\* the plain parts whose redacted text is not empty
ReadablePlain(m) ==
    {k \in PlainParts(m) : anonymize_content(m.walk[k].payload) # ""}

\* the text the last non-attachment text/html part leaves in html_body
LastHtml(m) ==
    IF HtmlParts(m) = {} THEN ""
    ELSE html_part_body(m.walk[LastIn(HtmlParts(m))], images,
                        preserve_dimensions)

\* C1 (amended): for a multipart message the body is the text left by the
\* last non-attachment text/html part whenever that text is not empty;
\* otherwise the first non-attachment text/plain part whose redacted text is
\* not empty, escaped and wrapped in <pre>; otherwise the placeholder.
C1_BodyChoice ==
    (Succeeded /\ variant = "inline" /\ is_multipart(msg)) =>
        body = IF LastHtml(msg) # "" THEN LastHtml(msg)
               ELSE IF ReadablePlain(msg) # {}
               THEN "<pre>" \o html_escape(anonymize_content(
                        msg.walk[FirstIn(ReadablePlain(msg))].payload))
                    \o "</pre>"
               ELSE NoContent

\* an empty text/html part was found and the plain text became the body
C1_Witness ==
    /\ Succeeded /\ variant = "inline" /\ is_multipart(msg)
    /\ HtmlParts(msg) # {}
    /\ LastHtml(msg) = ""
    /\ body = "<pre>Hello &amp; bye</pre>"

\* the texts of an HTML part that anonymize_content may be given
HtmlStages(part) ==
    {part.payload, rewrite_cid(part.payload, images)}
    \cup (IF clean_image_dimensions_raises(rewrite_cid(part.payload, images))
          THEN {}
          ELSE {clean_image_dimensions(rewrite_cid(part.payload, images))})

\* the bodies that are a redacted text of the message, or carry no text
RedactedBodies ==
    {NoContent, CouldNotDecode, ""}
    \cup UNION {{anonymize_content(t) : t \in HtmlStages(msg.walk[k])} :
                   k \in 1..Len(msg.walk)}
    \cup {"<pre>" \o html_escape(anonymize_content(msg.walk[k].payload))
              \o "</pre>" : k \in 1..Len(msg.walk)}

\* C2: every body that carries message content has passed through
\* anonymize_content, also when the processing of an HTML part raises.
C2_BodyRedacted == Succeeded => body \in RedactedBodies

\* C3: a failure while processing one part is caught locally; eml_to_html
\* does not return failure for a file that could be read and parsed.
C3_PartFailureIsLocal == (Returned /\ msg.readable) => ret.success

\* every part of m below a multipart root is a text part with no text
EmptyBody(m) ==
    \A k \in 1..Len(m.walk) :
        \/ m.walk[k].is_multipart
        \/ /\ m.walk[k].content_type \in {"text/html", "text/plain"}
           /\ m.walk[k].payload = ""
           /\ ~m.walk[k].bad_header

\* C4: a message with an empty body yields the placeholder body, in both
\* variants, multipart or not, and eml_to_html returns success.
C4_EmptyBodyPlaceholder ==
    (Returned /\ msg.readable /\ EmptyBody(msg)) =>
        (ret.success /\ body = NoContent)

\* the part the HTML body was taken from, inline-image variant
HtmlSource(m) ==
    IF is_multipart(m) THEN m.walk[LastIn(HtmlParts(m))] ELSE m.walk[1]

\* the body is HTML, inline-image variant
BodyIsHtml ==
    IF is_multipart(msg) THEN html_body # ""
    ELSE msg.walk[1].content_type = "text/html" /\ body # ""

\* C5: whenever the chosen body is HTML and preserve_dimensions is false,
\* the body has had clean_image_dimensions applied after the CID rewriting,
\* also for a message without image parts.
C5_DimensionsStripped ==
    (Succeeded /\ variant = "inline" /\ ~preserve_dimensions /\ BodyIsHtml) =>
        body = anonymize_content(clean_image_dimensions(
                   rewrite_cid(HtmlSource(msg).payload, images)))

\* the id of a piece is a key of the index, with or without the prefix
Known(piece, index) ==
    /\ piece.id # ""
    /\ (("cid:" \o piece.id) \in DOMAIN index \/ piece.id \in DOMAIN index)

\* what the claim says a piece becomes
Resolved(piece, index) ==
    IF Known(piece, index)
    THEN piece.pre \o piece.attr \o "=\"" \o piece.uri \o "\"" \o piece.post
    ELSE PieceText(piece)

\* s holds a src=, href= or background= attribute whose value begins cid:
HasCidRef(s) ==
    \E i \in 1..Len(s) : \E a \in {"src=", "href=", "background="} :
        \E q \in {"", "\"", "'"} :
            IStartsWithAt(s, i, a \o q \o "cid:")

\* C6: replace_cid_references replaces every src=, href= and background=
\* attribute that begins with cid: by the data URI of the referenced id when
\* the id is in the ImageIndex, leaves the references to other ids as they
\* are, and leaves no cid: reference when every referenced id is indexed.
C6_CidRewritten ==
    (call.fn = "replace_cid_references" /\ call.n = 1) =>
        /\ call.once =
               Concat([k \in 1..Len(call.pieces) |->
                          Resolved(call.pieces[k], images)])
        /\ (\A k \in 1..Len(call.pieces) :
                call.pieces[k].id = "" \/ Known(call.pieces[k], images))
           => ~HasCidRef(call.once)

\* quoted, unquoted and upper-case references to indexed ids were replaced
C6_Witness ==
    /\ call.fn = "replace_cid_references" /\ call.n = 1
    /\ call.once =
           "<IMG src=\"data:image/png;base64,UA==\" alt=x>"
               \o "<img src=\"data:image/png;base64,UQ==\">"

\* the index is complete: extract_images_from_email has returned
ImagesBuilt ==
    /\ variant = "inline"
    /\ \/ pc \in {"content", "choose", "attachments", "write"}
       \/ Succeeded

ImageParts(m) == {k \in 1..Len(m.walk) : IsImage(m.walk[k])}

\* the identifiers of an image part: its Content-ID and its filename
Identifiers(part) ==
    (IF part.content_id # "" THEN {strip_angle(part.content_id)} ELSE {})
    \cup (IF part.filename # "" THEN {part.filename} ELSE {})

\* C7 (as stated): every image part with a Content-ID or a filename is
\* reachable under both key forms of that identifier, with and without the
\* cid: prefix, both mapping to the same data URI.
C7_BothKeyForms ==
    ImagesBuilt =>
        \A k \in ImageParts(msg) : \A id \in Identifiers(msg.walk[k]) :
            /\ id \in DOMAIN images
            /\ ("cid:" \o id) \in DOMAIN images
            /\ images[id] = images["cid:" \o id]

\* the image parts that are indexed: those with a payload
Indexed(m) == {k \in ImageParts(m) : m.walk[k].payload # ""}

\* the keys an indexed image part is stored under
ImageKeys(part) ==
    (IF part.content_id # ""
     THEN {strip_angle(part.content_id), "cid:" \o strip_angle(part.content_id)}
     ELSE {})
    \cup (IF part.filename # "" THEN {part.filename} ELSE {})

\* no indexed image part after part k of m is stored under the key
NotOverwritten(m, k, key) ==
    \A j \in Indexed(m) : j > k => key \notin ImageKeys(m.walk[j])

\* C7 (amended): every image part with a non-empty payload and a Content-ID
\* is reachable under cid:<id> and under <id>, and each of the two keys maps
\* to the data URI of the part unless a later image part is stored under
\* that key; an image part with a non-empty payload and a filename is
\* reachable under the filename as it is (no cid: form of it is stored),
\* with the same proviso.
C7_CidKeyForms ==
    ImagesBuilt =>
        \A k \in Indexed(msg) :
            /\ msg.walk[k].content_id # "" =>
                   LET id == strip_angle(msg.walk[k].content_id)
                   IN  \A key \in {id, "cid:" \o id} :
                           /\ key \in DOMAIN images
                           /\ NotOverwritten(msg, k, key) =>
                                  images[key] = data_uri(msg.walk[k])
            /\ msg.walk[k].filename # "" =>
                   /\ msg.walk[k].filename \in DOMAIN images
                   /\ NotOverwritten(msg, k, msg.walk[k].filename) =>
                          images[msg.walk[k].filename] = data_uri(msg.walk[k])

\* an image with Content-ID <a> is indexed under cid:a and a
C7_Witness ==
    /\ ImagesBuilt
    /\ \E k \in Indexed(msg) : msg.walk[k] = ImageA
    /\ "a" \in DOMAIN images /\ "cid:a" \in DOMAIN images
    /\ images["a"] = "data:image/png;base64,UA=="
    /\ images["cid:a"] = "data:image/png;base64,UA=="

\* C8: clean_image_dimensions is idempotent.
C8_Idempotent ==
    (call.fn = "clean_image_dimensions" /\ call.n = 2) =>
        call.twice = call.once

\* C9: on a non-empty text without a match of any rule, anonymize_content
\* only collapses the runs of whitespace and trims.
C9_OnlyWhitespaceCollapsed ==
    (/\ call.fn = "anonymize_content" /\ call.n >= 1
     /\ call.input # "" /\ ~HasRuleMatch(call.input)) =>
        call.once = strip(sub_spaces_from(call.input, 1))

\* the entities html.escape writes
Entities == {"&amp;", "&lt;", "&gt;", "&quot;", "&#x27;"}

\* s holds no < and no >, and every & of s begins an entity
NoRawMarkup(s) ==
    \A i \in 1..Len(s) :
        /\ Char(s, i) \notin {"<", ">"}
        /\ Char(s, i) = "&" =>
               \E e \in Entities : StartsWithAt(s, i, e)

\* the body is <pre>...</pre> around the escaped redaction of text
IsEscapedPlain(b, text) ==
    /\ b = "<pre>" \o html_escape(anonymize_content(text)) \o "</pre>"
    /\ NoRawMarkup(SubSeq(b, 6, Len(b) - 6))

\* the part a plain body of a multipart message is taken from
PlainSource(m) ==
    IF variant = "inline" THEN m.walk[FirstIn(ReadablePlain(m))]
    ELSE m.walk[FirstIn({k \in 1..Len(m.walk) :
                            /\ m.walk[k].content_type = "text/plain"
                            /\ ~skipped_text(m.walk[k])})]

\* the body of a multipart message is a plain body
BodyIsPlain ==
    IF variant = "inline" THEN html_body = "" /\ plain_body # ""
    ELSE /\ \A k \in 1..Len(msg.walk) :
                msg.walk[k].content_type = "text/html"
                    => skipped_text(msg.walk[k])
         /\ \E k \in 1..Len(msg.walk) :
                msg.walk[k].content_type = "text/plain"
                    /\ ~skipped_text(msg.walk[k])

\* C10: a plain-text body is redacted, then escaped, then wrapped in <pre>
\* and holds no unescaped & < >; a non-multipart text/html payload is
\* emitted without escaping; "Hello & bye" gives <pre>Hello &amp; bye</pre>.
C10_PlainEscaped ==
    Succeeded =>
        /\ (is_multipart(msg) /\ BodyIsPlain) =>
               IsEscapedPlain(body, PlainSource(msg).payload)
        /\ (~is_multipart(msg) /\ msg.walk[1].content_type # "text/html") =>
               IsEscapedPlain(body, msg.walk[1].payload)
        /\ (~is_multipart(msg) /\ msg.walk[1].content_type = "text/html") =>
               body = anonymize_content(msg.walk[1].payload)
        /\ msg.walk \in {<<PlainHello>>, <<Root, PlainHello>>} =>
               body = "<pre>Hello &amp; bye</pre>"

\* the message whose only part is text/plain "Hello & bye" was converted
C10_Witness ==
    /\ Succeeded
    /\ msg.walk = <<Root, PlainHello>>
    /\ body = "<pre>Hello &amp; bye</pre>"

\* the descriptors the claim lists for the parts of walk from k on
RECURSIVE ListedFrom(_, _)
ListedFrom(walk, k) ==
    IF k > Len(walk) THEN <<>>
    ELSE LET part == walk[k]
             wanted ==
                 /\ Contains(part.disposition, "attachment")
                 /\ part.filename # ""
                 /\ \/ ~StartsWithAt(part.content_type, 1, "image/")
                    \/ ~Contains(part.disposition, "inline")
         IN  (IF wanted
              THEN <<[filename |-> part.filename, type |-> part.content_type,
                      size |-> Len(part.payload)]>>
              ELSE <<>>) \o ListedFrom(walk, k + 1)

\* extract_attachments_info has returned
AttachmentsBuilt == variant = "inline" /\ (pc = "write" \/ Succeeded)

\* C11: extract_attachments_info lists a part exactly when its disposition
\* contains attachment, it has a filename, and it is no image or its
\* disposition does not contain inline; the size is the length of the
\* decoded payload (0 when empty); the descriptors are in walk order.
C11_AttachmentsListed ==
    AttachmentsBuilt => attachments = ListedFrom(msg.walk, 1)

\* an attached html file and an attached image are listed in walk order
C11_Witness ==
    /\ AttachmentsBuilt
    /\ msg.walk = <<Root, HtmlAttached, ImageAttached>>
    /\ attachments =
           <<[filename |-> "d.html", type |-> "text/html", size |-> 8],
             [filename |-> "p.png", type |-> "image/png", size |-> 1]>>

\* the html file eml_to_html wrote
Written == outputs[ret.result]

\* C12: the From and To values are passed through anonymize_content before
\* they are emitted, the Subject and Date values are emitted without
\* redaction (all four through html.escape), and an absent header is emitted
\* as "No Subject" (Subject) or "Unknown" (From, To, Date).
C12_HeadersEmitted ==
    Succeeded =>
        /\ Written.subject =
               IF msg.headers.Subject.present
               THEN html_escape(msg.headers.Subject.value) ELSE "No Subject"
        /\ Written.date =
               IF msg.headers.Date.present
               THEN html_escape(msg.headers.Date.value) ELSE "Unknown"
        /\ Written.from_addr =
               IF msg.headers.From.present
               THEN html_escape(anonymize_content(msg.headers.From.value))
               ELSE "Unknown"
        /\ Written.to_addr =
               IF msg.headers.To.present
               THEN html_escape(anonymize_content(msg.headers.To.value))
               ELSE "Unknown"

\* a message without To was written: the address is gone from From, the
\* Subject and the Date keep theirs, and To is "Unknown"
C12_Witness ==
    /\ Succeeded
    /\ msg.headers.From = Header("A <x@y.z>")
    /\ Written.from_addr = "A"
    /\ Written.subject = "Hi &lt;x@y.z&gt; &amp; co"
    /\ Written.date = "Mon, 1 Jan 2024 x@y.z"
    /\ Written.to_addr = "Unknown"

\* the batch has ended after its loop
BatchDone ==
    call.fn = "convert_all_eml_files" /\ pc = "done" /\ call.eml_files # <<>>

\* the error text of a file that fails: the file cannot be opened, or a
\* header of one of its parts cannot be read
ErrorOf(content) ==
    IF content.readable THEN "string index out of range"
    ELSE "No such file or directory"

\* C13: every discovered .eml file is attempted exactly once, a failure
\* never stops the loop, success_count plus the number of failed files is
\* the number of files found (at every turn of the loop: the number of files
\* done), and each failed file is in failed_files once, with its error text.
C13_EveryFileOnce ==
    /\ (call.fn = "convert_all_eml_files" /\ pc = "loop") =>
           /\ call.success_count + Len(call.failed_files) = call.i - 1
           /\ Len(call.attempted) = call.i - 1
    /\ BatchDone =>
           /\ call.attempted =
                  [k \in 1..Len(call.eml_files) |-> call.eml_files[k].path]
           /\ call.success_count + Len(call.failed_files)
                  = Len(call.eml_files)
           /\ \A j, k \in 1..Len(call.failed_files) :
                  call.failed_files[j].file = call.failed_files[k].file
                      => j = k
           /\ \A k \in 1..Len(call.failed_files) :
                  \E j \in 1..Len(call.eml_files) :
                      /\ call.eml_files[j].path = call.failed_files[k].file
                      /\ ErrorOf(call.eml_files[j].content)
                             = call.failed_files[k].error

\* a batch of three files ended with one success after a failure and one
\* more failure after the success
C13_Witness ==
    /\ BatchDone
    /\ Len(call.eml_files) = 3
    /\ call.success_count = 1
    /\ Len(call.failed_files) = 2
    /\ call.failed_files[1].file = call.eml_files[1].path
    /\ call.failed_files[2].file = call.eml_files[3].path

\* C14: two distinct input files that both convert are written to two
\* distinct output files: after a batch the number of html files produced
\* is the success count.
C14_OutputsDistinct ==
    BatchDone => Cardinality(DOMAIN outputs) = call.success_count

\* format_file_size has returned
Formatted == call.fn = "format_file_size" /\ call.n = 1

\* the unit of a formatted size: what follows the blank
UnitOf(out) ==
    LET b == First({k \in 1..Len(out) : Char(out, k) = " "})
    IN  SubSeq(out, b + 1, Len(out))

\* the number of limbs of a byte count from its first non-zero limb on, one
\* for the count 0
Magnitude(size) ==
    LET k == First({j \in 1..Len(size) : size[j] # 0})
    IN  IF k = 0 THEN 1 ELSE Len(size) - k + 1

\* C16: a byte count is rendered with a unit of B, KB, MB, GB by 1024-based
\* scaling, the smallest unit for which the scaled value is below 1024; from
\* 1024^4 bytes on, where no such unit is left, the unit is TB.
C16_UnitChosen ==
    Formatted =>
        UnitOf(call.out) =
            IF Magnitude(call.size) <= Len(Units)
            THEN Units[Magnitude(call.size)] ELSE "TB"

\* 1024^2 + 768 * 1024 bytes are 1.8 MB (1.75, the tie going to the even
\* tenth), 1024^4 bytes are 1.0 TB
C16_Witness ==
    /\ Formatted
    /\ \/ call.size = <<0, 0, 1, 768, 0>> /\ call.out = "1.8 MB"
       \/ call.size = <<1, 0, 0, 0, 0>> /\ call.out = "1.0 TB"

\* C16 as stated: every byte count is rendered with one of B, KB, MB, GB.
C16_OnlyFourUnits ==
    Formatted => \E k \in 1..Len(Units) : UnitOf(call.out) = Units[k]

\* extract_email_info has returned for a file that could be read
Extracted ==
    call.fn = "extract_email_info" /\ call.n = 1 /\ call.file.readable

\* the value of a header as the page shows it, "" for a header the message
\* does not have
Shown(h, redacted) ==
    IF ~h.present THEN ""
    ELSE IF redacted THEN strip(anonymize_content(h.value))
    ELSE strip(h.value)

\* what C17 has a field be: the value located in the file when it has three
\* characters or more, the file name without its .html extension otherwise
ValueOrFilename(h, redacted) ==
    IF Len(Shown(h, redacted)) >= 3 THEN Shown(h, redacted)
    ELSE clean_list_prefix(replace(call.file.name, ".html", ""))

\* C17: each of subject, from and date is the value located in the file
\* when that value is plausible, and the file name without .html when the
\* field cannot be located or its value is implausibly short.
C17_FallbackForAnyField ==
    Extracted =>
        /\ call.out.subject = ValueOrFilename(call.headers.Subject, FALSE)
        /\ call.out.from = ValueOrFilename(call.headers.From, TRUE)
        /\ call.out.date = ValueOrFilename(call.headers.Date, FALSE)

\* generate_index_html has built its rows
IndexBuilt == call.fn = "generate_index_html" /\ call.n = 1

\* the files of the folder that are indexed
IndexedFiles ==
    {k \in 1..Len(call.folder) :
        LET name == call.folder[k].name
        IN  /\ Contains(name, ".html")
            /\ StartsWithAt(name, Len(name) - 4, ".html")
            /\ name # "index.html"}

\* C15: the index has one row for each HTML file other than index.html, the
\* rows are in ascending order of the subject the index shows, compared
\* without regard to case, and are numbered 1..n in that order; the subject
\* shown for a message whose subject has fewer than three characters is
\* the file name.
C15_RowsSorted ==
    IndexBuilt =>
        /\ Len(call.rows) = Cardinality(IndexedFiles)
        /\ \A k \in IndexedFiles :
               Cardinality({r \in 1..Len(call.rows) :
                   call.rows[r].link = "html/" \o call.folder[k].name}) = 1
        /\ \A r \in 1..Len(call.rows) : call.rows[r].index = r
        /\ \A r \in 1..(Len(call.rows) - 1) :
               ~StrLess(Lower(call.rows[r + 1].subject),
                        Lower(call.rows[r].subject))

\* the pages with the subjects Bee and ant, listed in that order ahead of
\* index.html, give the rows ant, Bee
C15_Witness ==
    /\ IndexBuilt
    /\ call.folder = <<FileBee, FileAnt, FileIndex>>
    /\ [r \in 1..2 |-> call.rows[r].subject] = <<"ant", "Bee">>
    /\ [r \in 1..2 |-> call.rows[r].link]
           = <<"html/k5.html", "html/k4.html">>
    /\ Len(call.rows) = 2

\* C15 as stated: the pages with the subjects B, a and C give the rows a,
\* B, C.
C15_ExampleOrder ==
    (IndexBuilt /\ call.folder = <<FileB, FileA, FileC>>) =>
        [r \in 1..Len(call.rows) |-> call.rows[r].link]
            = <<"html/k2.html", "html/k1.html", "html/k3.html">>

\* the parts of m the multipart walk of the text-only variant reads as the
\* HTML body, and as a plain body
TextHtmlParts(m) ==
    {k \in 1..Len(m.walk) :
        m.walk[k].content_type = "text/html" /\ ~skipped_text(m.walk[k])}

TextPlainParts(m) ==
    {k \in 1..Len(m.walk) :
        m.walk[k].content_type = "text/plain" /\ ~skipped_text(m.walk[k])}

\* C18: in a multipart message with no HTML body the plain body is the
\* text of the first non-attachment text/plain part in document order, and
\* no later text/plain part replaces it, also when that text is empty or
\* is emptied by the redaction.
C18_FirstPlainWins ==
    (Succeeded /\ is_multipart(msg)) =>
        /\ (variant = "inline" /\ HtmlParts(msg) = {} /\ PlainParts(msg) # {})
               => plain_body = anonymize_content(
                      msg.walk[FirstIn(PlainParts(msg))].payload)
        /\ (variant = "text" /\ TextHtmlParts(msg) = {}
                /\ TextPlainParts(msg) # {})
               => body = pre_wrap(anonymize_content(
                      msg.walk[FirstIn(TextPlainParts(msg))].payload))

\* clean_image_dimensions has returned without raising
Cleaned ==
    call.fn = "clean_image_dimensions" /\ call.n >= 1 /\ call.once # Raised

\* style declarations of the inputs that are neither width nor height
OtherDeclarations == {"a:b", "max-width:9", "line-height:1"}

EndsWith(s, p) == StartsWithAt(s, Len(s) - Len(p) + 1, p)

\* C19: clean_image_dimensions changes the width and height attributes and
\* the width and height style declarations of <img> tags only: every other
\* style declaration is kept, and a tag that is not an <img> is unchanged.
C19_OnlyDimensionsChanged ==
    Cleaned =>
        /\ \A decl \in OtherDeclarations :
               Contains(call.input, decl) => Contains(call.once, decl)
        /\ StartsWithAt(call.input, 1, "<p") =>
               LET e == Find(call.input, 1, ">")
               IN  SubSeq(call.once, 1, e) = SubSeq(call.input, 1, e)
        /\ EndsWith(call.input, "<p width=4>")
               => EndsWith(call.once, "t<img><p width=4>")

\* the image parts of m that are attachments and not inline
AttachedImages(m) ==
    {k \in 1..Len(m.walk) :
        /\ IsImage(m.walk[k])
        /\ Contains(m.walk[k].disposition, "attachment")
        /\ ~Contains(m.walk[k].disposition, "inline")}

\* C20: only inline images are indexed: an image part whose disposition is
\* attachment and not inline has no entry in the image index, so no part is
\* both in the index and among the attachment descriptors.
C20_OnlyInlineIndexed ==
    (Succeeded /\ variant = "inline") =>
        \A k \in AttachedImages(msg) :
            \A key \in DOMAIN images : images[key] # data_uri(msg.walk[k])

\* extract_email_content of both variants has ended
BothReturned ==
    /\ call.fn = "extract_email_content"
    /\ call.n = 1
    /\ pc \in {"write", "returned"}

\* C21: for a message without image parts, and with preserve_dimensions set
\* in the inline-image variant, extract_email_content of the two variants
\* ends alike and returns the same body.
C21_VariantsAgree ==
    BothReturned =>
        /\ call.raised = (pc = "returned")
        /\ pc = "write" => body = call.body

\* C22: a subject of 3 to 150 characters without leading or trailing
\* whitespace comes back from the page eml_to_html writes for it: the
\* subject extract_email_info returns is the subject of the message.
C22_SubjectRoundTrip ==
    (/\ Extracted
     /\ call.headers.Subject.present
     /\ Len(call.headers.Subject.value) >= 3
     /\ Len(call.headers.Subject.value) <= 150
     /\ strip(call.headers.Subject.value) = call.headers.Subject.value)
        => call.out.subject = call.headers.Subject.value

====
